---------------------------- MODULE Spec2Model ----------------------------
(***************************************************************************)
(* Jet (truncated Taylor series) propagation of jax/experimental/jet.py.   *)
(*                                                                         *)
(* Array elements are exact numbers of the form (n/d) * e^p, with n, d, p  *)
(* integers: the closure the exp and log rules need.  An arithmetic result *)
(* outside this fragment is NaV ("not a value"); the actions only take     *)
(* steps whose results stay inside it.  Floating-point rounding is not     *)
(* modelled.                                                               *)
(***************************************************************************)
EXTENDS Integers, Sequences, FiniteSets, TLC

\* ------------------------------------------------------------------ bounds
MaxK == 2
MaxSteps == 2
MaxArgs == 2
MaxRuleK == 3

\* ----------------------------------------------------------------- numbers
Abs(x) == IF x < 0 THEN -x ELSE x

RECURSIVE Gcd(_, _)
Gcd(a, b) == IF b = 0 THEN a ELSE Gcd(b, a % b)

NaV == [n |-> 0, d |-> 0, p |-> 0]

IsNum(a) == a.d # 0

\* (n/d) * e^p in lowest terms, the sign on the numerator, zero as 0/1 * e^0
Q(n, d, p) ==
  IF d = 0 THEN NaV
  ELSE IF n = 0 THEN [n |-> 0, d |-> 1, p |-> 0]
  ELSE LET g == Gcd(Abs(n), Abs(d))
           s == IF d < 0 THEN -1 ELSE 1
       IN [n |-> (s * n) \div g, d |-> (s * d) \div g, p |-> p]

Num(i) == Q(i, 1, 0)

NAdd(a, b) ==
  IF ~IsNum(a) \/ ~IsNum(b) THEN NaV
  ELSE IF a.n = 0 THEN b
  ELSE IF b.n = 0 THEN a
  ELSE IF a.p # b.p THEN NaV
  ELSE Q(a.n * b.d + b.n * a.d, a.d * b.d, a.p)

NNeg(a) == IF ~IsNum(a) THEN NaV ELSE Q(-a.n, a.d, a.p)

NSub(a, b) == NAdd(a, NNeg(b))

NMul(a, b) ==
  IF ~IsNum(a) \/ ~IsNum(b) THEN NaV
  ELSE Q(a.n * b.n, a.d * b.d, a.p + b.p)

NDiv(a, b) ==
  IF ~IsNum(a) \/ ~IsNum(b) \/ b.n = 0 THEN NaV
  ELSE Q(a.n * b.d, a.d * b.n, a.p - b.p)

\* exp of an integer i is e^i; log of e^p is p
NExp(a) == IF IsNum(a) /\ a.d = 1 /\ a.p = 0 THEN [n |-> 1, d |-> 1, p |-> a.n] ELSE NaV

NLog(a) == IF IsNum(a) /\ a.n = 1 /\ a.d = 1 THEN Q(a.p, 1, 0) ELSE NaV

NMax(a, b) ==
  IF ~IsNum(a) \/ ~IsNum(b) \/ a.p # 0 \/ b.p # 0 THEN NaV
  ELSE IF a.n * b.d >= b.n * a.d THEN a ELSE b

\* scipy.special.factorial
RECURSIVE fact(_)
fact(k) == IF k <= 0 THEN 1 ELSE k * fact(k - 1)

\* ------------------------------------------------------------------ arrays
\* a Python list: the function on 1..n as the sequence of its values
List(f) == f \o <<>>

\* an array is its shape, its element type and its elements in row-major order
RECURSIVE Size(_)
Size(shape) == IF Len(shape) = 0 THEN 1 ELSE shape[1] * Size(Tail(shape))

Stride(shape, a) == Size(SubSeq(shape, a + 1, Len(shape)))

\* the index tuple of the f-th element, and back
Unravel(f, shape) == List([a \in 1..Len(shape) |-> (((f - 1) \div Stride(shape, a)) % shape[a]) + 1])

RECURSIVE Ravel0(_, _, _)
Ravel0(i, shape, a) == IF a > Len(shape) THEN 0 ELSE (i[a] - 1) * Stride(shape, a) + Ravel0(i, shape, a + 1)

Ravel(i, shape) == 1 + Ravel0(i, shape, 1)

Array(shape, dtype, data) == [shape |-> shape, dtype |-> dtype, data |-> data]

Vec(s) == Array(<<Len(s)>>, "f32", List([f \in 1..Len(s) |-> Num(s[f])]))

IVec(s) == Array(<<Len(s)>>, "i32", List([f \in 1..Len(s) |-> Num(s[f])]))

Scalar(i) == Array(<<>>, "f32", <<Num(i)>>)

Defined(x) == \A f \in 1..Len(x.data) : IsNum(x.data[f])

AMap(F(_), x) == Array(x.shape, x.dtype, List([f \in 1..Len(x.data) |-> F(x.data[f])]))

AMap2(F(_, _), x, y) == Array(x.shape, x.dtype, List([f \in 1..Len(x.data) |-> F(x.data[f], y.data[f])]))

\* a Python float times an array
Scale(q, x) == Array(x.shape, x.dtype, List([f \in 1..Len(x.data) |-> NMul(q, x.data[f])]))

\* onp.zeros(onp.shape(x), dtype=onp.result_type(x))
onp_zeros(x) == Array(x.shape, x.dtype, List([f \in 1..Len(x.data) |-> Num(0)]))

\* the entries of i on the axes that are kept (axes are numbered from 0)
KeepAxes(i, axes) ==
  LET kept == {a \in 1..Len(i) : (a - 1) \notin axes}
      nth(j) == CHOOSE a \in kept : Cardinality({b \in kept : b < a}) = j - 1
  IN List([j \in 1..Cardinality(kept) |-> i[nth(j)]])

RECURSIVE FoldSet(_, _, _, _)
FoldSet(F(_, _), acc, data, S) ==
  IF S = {} THEN acc
  ELSE LET f == CHOOSE g \in S : TRUE
       IN FoldSet(F, F(acc, data[f]), data, S \ {f})

\* the elements of x that are reduced into element o of the result
Group(x, axes, o) ==
  LET oi == Unravel(o, KeepAxes(x.shape, axes))
  IN {f \in 1..Len(x.data) : KeepAxes(Unravel(f, x.shape), axes) = oi}

lax_reduce_sum(x, axes) ==
  LET shape == KeepAxes(x.shape, axes)
  IN Array(shape, x.dtype, List([o \in 1..Size(shape) |-> FoldSet(NAdd, Num(0), x.data, Group(x, axes, o))]))

lax_reduce_max(x, axes) ==
  LET shape == KeepAxes(x.shape, axes)
  IN Array(shape, x.dtype,
           List([o \in 1..Size(shape) |->
              LET G == Group(x, axes, o)
                  f0 == CHOOSE g \in G : TRUE
              IN FoldSet(NMax, x.data[f0], x.data, G \ {f0})]))

\* lax.reshape: the same elements in the same order under another shape
lax_reshape(x, shape) == Array(shape, x.dtype, x.data)

\* lax._eq_meet: elementwise equality, y broadcast along its axes of size 1
lax_eq_meet(x, y) ==
  [shape |-> x.shape, dtype |-> "bool",
   data |-> List([f \in 1..Len(x.data) |->
               LET i == Unravel(f, x.shape)
                   j == List([a \in 1..Len(i) |-> IF y.shape[a] = 1 THEN 1 ELSE i[a]])
               IN x.data[f] = y.data[Ravel(j, y.shape)]])]

lax_convert_element_type(b, dtype) ==
  Array(b.shape, dtype, List([f \in 1..Len(b.data) |-> IF b.data[f] THEN Num(1) ELSE Num(0)]))

\* gather of single elements of a rank-1 operand at the positions idx holds
lax_gather(x, idx) ==
  Array(idx.shape, x.dtype, List([j \in 1..Len(idx.data) |-> x.data[idx.data[j].n + 1]]))

\* ------------------------------------------- the array runtime's primitives
\* elementwise operations take operands of one shape and element type
SameShape(args) == \A a \in 1..Len(args) : args[a].shape = args[1].shape /\ args[a].dtype = args[1].dtype

lax_dot(x, y) == lax_reduce_sum(AMap2(NMul, x, y), {0})

Arity(prim) ==
  IF prim \in {"neg", "exp", "log", "sin", "reduce_sum", "reduce_max"} THEN 1 ELSE 2

\* prim.bind on plain arrays: the primitive's own evaluation
impl(prim, args, params) ==
  CASE prim = "neg" -> AMap(NNeg, args[1])
    [] prim = "add" -> AMap2(NAdd, args[1], args[2])
    [] prim = "sub" -> AMap2(NSub, args[1], args[2])
    [] prim = "mul" -> AMap2(NMul, args[1], args[2])
    [] prim = "div" -> AMap2(NDiv, args[1], args[2])
    [] prim = "max" -> AMap2(NMax, args[1], args[2])
    [] prim = "exp" -> AMap(NExp, args[1])
    [] prim = "log" -> AMap(NLog, args[1])
    [] prim = "sin" -> AMap(LAMBDA a : NaV, args[1])
    [] prim = "dot_general" -> lax_dot(args[1], args[2])
    [] prim = "reduce_sum" -> lax_reduce_sum(args[1], params.axes)
    [] prim = "reduce_max" -> lax_reduce_max(args[1], params.axes)
    [] prim = "gather" -> lax_gather(args[1], args[2])

\* whether the runtime accepts the operands (it raises its own shape error otherwise)
WellShaped(prim, args, params) ==
  CASE prim \in {"add", "sub", "mul", "div", "max"} -> SameShape(args)
    [] prim = "dot_general" -> SameShape(args) /\ Len(args[1].shape) = 1
    [] prim \in {"reduce_sum", "reduce_max"} -> \A a \in params.axes : a < Len(args[1].shape)
    [] prim = "gather" ->
         /\ Len(args[1].shape) = 1 /\ Len(args[2].shape) = 1 /\ args[2].dtype = "i32"
         /\ \A j \in 1..Len(args[2].data) : args[2].data[j].n + 1 \in 1..args[1].shape[1]
    [] OTHER -> TRUE

NoArray == [shape |-> <<>>, dtype |-> "none", data |-> <<>>]

\* ------------------------------------------------------- propagation rules
\* Python's sum over a list: 0 + t1 + t2 + ...
RECURSIVE PySumFrom(_, _)
PySumFrom(ts, zero) ==
  IF Len(ts) = 0 THEN zero
  ELSE AMap2(NAdd, PySumFrom(SubSeq(ts, 1, Len(ts) - 1), zero), ts[Len(ts)])

\* like is an array of the terms' shape: the sum of no terms is 0
PySum(ts, like) == PySumFrom(ts, onp_zeros(like))

\* zip(*series_in): as many tuples as the shortest list has entries
ZipLen(series_in) ==
  IF Len(series_in) = 0 THEN 0
  ELSE CHOOSE m \in {Len(series_in[a]) : a \in 1..Len(series_in)} :
         \A a \in 1..Len(series_in) : m <= Len(series_in[a])

zip(series_in) == List([k \in 1..ZipLen(series_in) |-> List([a \in 1..Len(series_in) |-> series_in[a][k]])])

RuleOut(primal_out, series_out) == [status |-> "ok", primal_out |-> primal_out, series_out |-> series_out]

RuleErr(e) == [status |-> e, primal_out |-> NoArray, series_out |-> <<>>]

Unpack_whole(v) == RuleOut(v[1], v)

\* primal_out, *series_out = v
Unpack(v) == RuleOut(v[1], Tail(v))

BindEach(prim, tuples, params) == List([k \in 1..Len(tuples) |-> impl(prim, tuples[k], params)])

linear_prop_reversed(prim, primals_in, series_in, params) ==
  RuleOut(impl(prim, primals_in, params),
          List([k \in 1..ZipLen(series_in) |->
                  BindEach(prim, zip(series_in), params)[(ZipLen(series_in) - k) + 1]]))

linear_prop(prim, primals_in, series_in, params) ==
  RuleOut(impl(prim, primals_in, params), BindEach(prim, zip(series_in), params))

exp_scale(k, j) == Q(1, fact(k - j) * fact(j - 1), 0)

exp_terms(u, v, k) == List([j \in 1..k |-> AMap2(NMul, Scale(exp_scale(k, j), v[(k - j) + 1]), u[j + 1])])

\* the loop of _exp_taylor from k on, v holding v[0..k-1]
RECURSIVE exp_loop(_, _, _)
exp_loop(u, v, k) ==
  IF k > Len(u) - 1 THEN v
  ELSE exp_loop(u, Append(v, Scale(Num(fact(k - 1)), PySum(exp_terms(u, v, k), u[1]))), k + 1)

_exp_taylor(primals_in, series_in) ==
  Unpack(exp_loop(<<primals_in[1]>> \o series_in[1], <<impl("exp", <<primals_in[1]>>, <<>>)>>, 1))

log_scale_div(k, j) == Q(1, fact(k - j) * fact(j), 0)

log_scale(k, j) == Q(1, fact(k - j) * fact(j - 1), 0)

log_conv(u, v, k) ==
  PySum(List([j \in 1..(k - 1) |-> AMap2(NMul, Scale(log_scale(k, j), v[j + 1]), u[(k - j) + 1])]), u[1])

\* the loop of _log_taylor from k on, v holding v[0..k-1]
RECURSIVE log_loop(_, _, _)
log_loop(u, v, k) ==
  IF k > Len(u) - 1 THEN v
  ELSE log_loop(u,
                Append(v, AMap2(NDiv, AMap2(NSub, u[k + 1], Scale(Num(fact(k - 1)), log_conv(u, v, k))), u[1])),
                k + 1)

_log_taylor(primals_in, series_in) ==
  Unpack(log_loop(<<primals_in[1]>> \o series_in[1], <<impl("log", <<primals_in[1]>>, <<>>)>>, 1))

div_scale(k, j) == Q(1, fact(k - j) * fact(j), 0)

div_conv(w, v, k) ==
  PySum(List([j1 \in 1..k |-> AMap2(NMul, Scale(div_scale(k, j1 - 1), v[j1]), w[(k - (j1 - 1)) + 1])]), w[1])

\* the loop of _div_taylor_rule from k on, v holding v[0..k-1]
RECURSIVE div_loop(_, _, _, _)
div_loop(u, w, v, k) ==
  IF k > Len(u) - 1 THEN v
  ELSE div_loop(u, w,
                Append(v, AMap2(NDiv, AMap2(NSub, u[k + 1], Scale(Num(fact(k)), div_conv(w, v, k))), w[1])),
                k + 1)

_div_taylor_rule(primals_in, series_in, params) ==
  Unpack(div_loop(<<primals_in[1]>> \o series_in[1], <<primals_in[2]>> \o series_in[2], <<>>, 0))

bilinear_scale(k, j) == Q(1, fact(k - j) * fact(j), 0)

bilinear_terms(prim, u, w, k, params) ==
  List([j1 \in 1..(k + 1) |->
          Scale(bilinear_scale(k, j1 - 1), impl(prim, <<u[j1], w[(k - (j1 - 1)) + 1]>>, params))])

SumOf(ts) == PySum(ts, ts[1])

bilinear_v_unscaled(prim, u, w, k, params) == SumOf(bilinear_terms(prim, u, w, k, params))

\* v[k] in the loop of _bilinear_taylor_rule
bilinear_v(prim, u, w, k, params) == Scale(Num(fact(k)), SumOf(bilinear_terms(prim, u, w, k, params)))

bilinear_loop(prim, u, w, params) == List([k1 \in 1..Len(u) |-> bilinear_v(prim, u, w, k1 - 1, params)])

_bilinear_taylor_rule(prim, primals_in, series_in, params) ==
  Unpack(bilinear_loop(prim, <<primals_in[1]>> \o series_in[1], <<primals_in[2]>> \o series_in[2], params))

\* gs, _ = series_in
_gather_taylor_rule(primals_in, series_in, params) ==
  RuleOut(impl("gather", primals_in, params),
          BindEach("gather", List([k \in 1..Len(series_in[1]) |-> <<series_in[1][k], primals_in[2]>>]), params))

_reduce_chooser_taylor_rule(g, location_indicators, counts, axes) ==
  AMap2(NDiv, lax_reduce_sum(AMap2(NMul, g, location_indicators), axes), counts)

OnesAt(shape, axes) == List([a \in 1..Len(shape) |-> IF (a - 1) \in axes THEN 1 ELSE shape[a]])

\* the rule from location_indicators on
reduce_max_series(primal_out, gs, location_indicators, axes) ==
  RuleOut(primal_out,
          List([k \in 1..Len(gs) |->
                  _reduce_chooser_taylor_rule(gs[k], location_indicators,
                                              lax_reduce_sum(location_indicators, axes), axes)]))

\* the rule from primal_out on; gs[0].dtype is read first
reduce_max_located(operand, gs, primal_out, axes) ==
  IF Len(gs) = 0 THEN RuleErr("IndexError")
  ELSE reduce_max_series(
         primal_out, gs,
         lax_convert_element_type(
           lax_eq_meet(operand, lax_reshape(primal_out, OnesAt(operand.shape, axes))), gs[1].dtype),
         axes)

_reduce_max_taylor_rule(primals_in, series_in, params) ==
  reduce_max_located(primals_in[1], series_in[1], impl("reduce_max", primals_in, params), params.axes)

\* ------------------------------------------------------------ rule registry
LinearPrims == {"neg", "add", "sub", "reduce_sum"}

BilinearPrims == {"mul", "dot_general"}

jet_rules ==
  [p \in LinearPrims \cup BilinearPrims \cup {"exp", "log", "div", "gather", "reduce_max"} |->
     IF p \in LinearPrims THEN "linear_prop"
     ELSE IF p \in BilinearPrims THEN "_bilinear_taylor_rule"
     ELSE IF p = "exp" THEN "_exp_taylor"
     ELSE IF p = "log" THEN "_log_taylor"
     ELSE IF p = "div" THEN "_div_taylor_rule"
     ELSE IF p = "gather" THEN "_gather_taylor_rule"
     ELSE "_reduce_max_taylor_rule"]

\* rule(primals_in, series_in, **params) for rule = jet_rules[prim]
CallRule(prim, primals_in, series_in, params) ==
  LET rule == jet_rules[prim]
  IN CASE rule = "linear_prop" -> linear_prop(prim, primals_in, series_in, params)
       [] rule = "_bilinear_taylor_rule" -> _bilinear_taylor_rule(prim, primals_in, series_in, params)
       [] rule = "_exp_taylor" -> _exp_taylor(primals_in, series_in)
       [] rule = "_log_taylor" -> _log_taylor(primals_in, series_in)
       [] rule = "_div_taylor_rule" -> _div_taylor_rule(primals_in, series_in, params)
       [] rule = "_gather_taylor_rule" -> _gather_taylor_rule(primals_in, series_in, params)
       [] rule = "_reduce_max_taylor_rule" -> _reduce_max_taylor_rule(primals_in, series_in, params)

\* ---------------------------------------------------- jet values, sentinels
zero_term == [shape |-> <<>>, dtype |-> "ZeroTerm", data |-> <<>>]

\* the sentinel is told apart by identity; as a value it is no list of arrays
zero_series == <<[shape |-> <<>>, dtype |-> "ZeroSeries", data |-> <<>>]>>

JetTracer(primal, terms) == [tracer |-> TRUE, primal |-> primal, terms |-> terms]

\* a value that is no tracer of this trace
Plain(val) == [tracer |-> FALSE, primal |-> val, terms |-> <<>>]

full_lower(t) ==
  IF t.tracer /\ (t.terms = zero_series \/ \A k \in 1..Len(t.terms) : t.terms[k] = zero_term)
  THEN Plain(t.primal)
  ELSE t

pure(val) == JetTracer(val, zero_series)

lift(val) == JetTracer(val, zero_series)

\* core.Trace.full_raise: a value of no trace is made a tracer by pure
full_raise(v) == IF v.tracer THEN v ELSE pure(v.primal)

NoResult(status, key, series_in, looked_up) ==
  [status |-> status, key |-> key, series_in |-> series_in, looked_up |-> looked_up,
   rule_called |-> FALSE, out |-> Plain(NoArray)]

\* ... if terms is not zero_series
Concrete(series_in) == {a \in 1..Len(series_in) : series_in[a] # zero_series}

Orders_all(series_in) ==
  {IF series_in[a] = zero_series THEN 0 ELSE Len(series_in[a]) : a \in 1..Len(series_in)}

\* order, = {len(terms) for terms in series_in if terms is not zero_series}
Orders(series_in) == {Len(series_in[a]) : a \in Concrete(series_in)}

Expand(s, order) == IF s = zero_series THEN List([k \in 1..order |-> zero_term]) ELSE s

Materialize(x, terms) == List([k \in 1..Len(terms) |-> IF terms[k] = zero_term THEN onp_zeros(x) ELSE terms[k]])

Instantiate(primals_in, series_in, order) ==
  List([a \in 1..Len(series_in) |-> Materialize(primals_in[a], Expand(series_in[a], order))])

\* return JetTracer(self, primal_out, terms_out), unless the rule raised
Wrapped(r, series_in) ==
  [status |-> r.status, key |-> "", series_in |-> series_in, looked_up |-> TRUE, rule_called |-> TRUE,
   out |-> IF r.status = "ok" THEN JetTracer(r.primal_out, r.series_out) ELSE Plain(NoArray)]

Dispatch_default(primitive, primals_in, series_in, params) ==
  IF primitive \notin DOMAIN jet_rules
  THEN Wrapped(linear_prop(primitive, primals_in, series_in, params), series_in)
  ELSE Wrapped(CallRule(primitive, primals_in, series_in, params), series_in)

\* process_primitive from rule = jet_rules[primitive] on
Dispatch(primitive, primals_in, series_in, params) ==
  IF primitive \notin DOMAIN jet_rules THEN NoResult("KeyError", primitive, series_in, TRUE)
  ELSE Wrapped(CallRule(primitive, primals_in, series_in, params), series_in)

\* process_primitive from the unpacking of order on
Ordered(primitive, primals_in, series_in, orders, params) ==
  IF Cardinality(orders) # 1 THEN NoResult("ValueError", "", <<>>, FALSE)
  ELSE Dispatch(primitive, primals_in, Instantiate(primals_in, series_in, CHOOSE o \in orders : TRUE), params)

Primals(tracers) == List([a \in 1..Len(tracers) |-> tracers[a].primal])

Terms(tracers) == List([a \in 1..Len(tracers) |-> tracers[a].terms])

process_primitive(primitive, tracers, params) ==
  Ordered(primitive, Primals(tracers), Terms(tracers), Orders(Terms(tracers)), params)

Lowered(r) == [r EXCEPT !.out = IF r.status = "ok" THEN full_lower(r.out) ELSE r.out]

\* core.Primitive.bind from top_trace.process_primitive on: the result is lowered
Intercept(prim, tracers, params) ==
  [intercepted |-> TRUE, tracers |-> tracers, res |-> Lowered(process_primitive(prim, tracers, params))]

\* core.Primitive.bind: with no tracer among the operands the primitive is
\* evaluated; otherwise the operands are raised to the trace, which processes
\* the primitive
bind(prim, args, params) ==
  IF \A a \in 1..Len(args) : ~args[a].tracer
  THEN [intercepted |-> FALSE, tracers |-> <<>>,
        res |-> [status |-> "ok", key |-> "", series_in |-> <<>>, looked_up |-> FALSE,
                 rule_called |-> FALSE, out |-> Plain(impl(prim, Primals(args), params))]]
  ELSE Intercept(prim, List([a \in 1..Len(args) |-> full_raise(args[a])]), params)

\* core.new_master: the trace stack with this call's layer pushed, and popped
new_master_enter(stack) == Append(stack, "JetTrace")

new_master_exit(stack) == SubSeq(stack, 1, Len(stack) - 1)

\* ------------------------------------------------------------------- state
VARIABLES
  pc,           \* "entry", "running", "done", "failed": the position of the call
  entry,        \* "jet": the call enters through jet; "jet_transform": directly
  primals,      \* the call's primal arguments
  series,       \* the call's series arguments
  prior,        \* the trace stack when the call was made
  trace_stack,  \* core's stack of interception layers
  env,          \* the values the user function holds: its arguments, its constants, its results
  last,         \* the last primitive the user function bound, its operands and what came of it
  err,          \* the exception the call ended with
  log,          \* how often fun was invoked, a layer pushed, a rule called, a primitive bound
  out,          \* what the call returned
  rpc,          \* rule application: "start", "applied", "chained"
  rcall,        \* rule application: the rule's primitive and arguments
  rout,         \* rule application: the rule's result
  rout2         \* rule application: the result of _log_taylor on _exp_taylor's result

vars == <<pc, entry, primals, series, prior, trace_stack, env, last, err, log, out, rpc, rcall, rout, rout2>>

callvars == <<pc, entry, primals, series, prior, trace_stack, env, last, err, log, out>>

rulevars == <<rpc, rcall, rout, rout2>>

\* ------------------------------------------------------------------ inputs
ArgPrimals == {Vec(<<1, 2>>)}

ArgCoefs == {zero_term, Vec(<<1, 0>>)}

SeriesLists == UNION {[1..K -> ArgCoefs] : K \in 0..MaxK}

\* jet takes coefficient lists; jet_transform wraps whatever it is handed
ArgSeries(e) == IF e = "jet" THEN SeriesLists ELSE SeriesLists \cup {zero_series}

\* the constants the user function closes over
FunConsts == <<Plain(Vec(<<1, 1>>)), Plain(IVec(<<1, 0>>))>>

PriorStacks == {<<"JVPTrace">>}

Prims == {"neg", "add", "reduce_sum", "mul", "div", "exp", "log", "gather", "reduce_max", "sin", "max"}

ParamsOf(prim) == IF prim \in {"reduce_sum", "reduce_max"} THEN {[axes |-> {0}]} ELSE {[axes |-> {}]}

NoLast ==
  [prim |-> "none", params |-> [axes |-> {}], tracers |-> <<>>, intercepted |-> FALSE,
   res |-> NoResult("none", "", <<>>, FALSE)]

NoRuleCall == [prim |-> "none", primals_in |-> <<>>, series_in |-> <<>>, params |-> [axes |-> {}]]

InitCall ==
  /\ pc = "entry"
  /\ entry \in {"jet", "jet_transform"}
  /\ \E n \in 1..MaxArgs :
       /\ primals \in [1..n -> ArgPrimals]
       /\ series \in [1..n -> ArgSeries(entry)]
  /\ prior \in PriorStacks
  /\ trace_stack = prior
  /\ env = <<>>
  /\ last = NoLast
  /\ err = ""
  /\ log = [fun |-> 0, pushed |-> 0, rules |-> 0, binds |-> 0]
  /\ out = <<>>

IdleRules == rpc = "idle" /\ rcall = NoRuleCall /\ rout = RuleErr("none") /\ rout2 = RuleErr("none")

Init == InitCall /\ IdleRules

\* ------------------------------------------------------------ the jet call
\* jet_transform up to its first yield: the layer is pushed, the arguments are
\* wrapped, and the user function starts on them
EnterTransform ==
  /\ trace_stack' = new_master_enter(trace_stack)
  /\ env' = FunConsts \o [a \in 1..Len(primals) |-> JetTracer(primals[a], series[a])]
  /\ log' = [log EXCEPT !.pushed = @ + 1, !.fun = @ + 1]
  /\ pc' = "running"
  /\ err' = ""

jet_check_skipped(ser) == TRUE

\* order, = set(map(len, series))
jet_check(ser) == Cardinality({Len(ser[a]) : a \in 1..Len(ser)}) = 1

jet ==
  /\ pc = "entry" /\ entry = "jet"
  /\ IF jet_check(series)
     THEN EnterTransform
     ELSE /\ pc' = "failed"
          /\ err' = "ValueError: jet terms have inconsistent lengths for different arguments"
          /\ UNCHANGED <<trace_stack, env, log>>
  /\ UNCHANGED <<entry, primals, series, prior, last, out>>

jet_transform ==
  /\ pc = "entry" /\ entry = "jet_transform"
  /\ EnterTransform
  /\ UNCHANGED <<entry, primals, series, prior, last, out>>

jet_transform_exit_leak(stack, raised) == IF raised THEN stack ELSE new_master_exit(stack)

\* the with statement of jet_transform: left by a return or by an exception
jet_transform_exit(stack, raised) == new_master_exit(stack)

ResultDefined(r) ==
  /\ Defined(r.out.primal)
  /\ r.out.tracer => \A k \in 1..Len(r.out.terms) : Defined(r.out.terms[k])

\* what one bound primitive does to the call
Bound(prim, params, b) ==
  /\ b.res.status = "ok" => ResultDefined(b.res)
  /\ last' = [prim |-> prim, params |-> params, tracers |-> b.tracers, intercepted |-> b.intercepted,
              res |-> b.res]
  /\ log' = [log EXCEPT !.binds = @ + 1, !.rules = IF b.res.rule_called THEN @ + 1 ELSE @]
  /\ IF b.res.status = "ok"
     THEN /\ env' = Append(env, b.res.out)
          /\ UNCHANGED <<pc, err, trace_stack>>
     ELSE /\ pc' = "failed"
          /\ err' = b.res.status
          /\ trace_stack' = jet_transform_exit(trace_stack, TRUE)
          /\ UNCHANGED env

\* the user function binds a primitive to values it holds; after its first
\* primitive, each one takes the newest value as an operand
Bind ==
  /\ pc = "running"
  /\ log.binds < MaxSteps
  /\ \E prim \in Prims : \E params \in ParamsOf(prim) : \E ix \in [1..Arity(prim) -> 1..Len(env)] :
       /\ log.binds > 0 => \E a \in 1..Arity(prim) : ix[a] = Len(env)
       /\ \E args \in {List([a \in 1..Arity(prim) |-> env[ix[a]]])} :
            /\ WellShaped(prim, Primals(args), params)
            /\ \E b \in {bind(prim, args, params)} : Bound(prim, params, b)
  /\ UNCHANGED <<entry, primals, series, prior, out>>

\* the user function calls a sub-function on a tracer: process_call
process_call ==
  /\ pc = "running"
  /\ \E i \in 1..Len(env) : env[i].tracer
  /\ pc' = "failed"
  /\ err' = "AssertionError"
  /\ trace_stack' = jet_transform_exit(trace_stack, TRUE)
  /\ UNCHANGED <<entry, primals, series, prior, env, last, log, out>>

\* the user function returns its newest value; jet_transform unwraps it
Return ==
  /\ pc = "running"
  /\ LET t == full_raise(env[Len(env)])
     IN out' = <<t.primal, t.terms>>
  /\ pc' = "done"
  /\ trace_stack' = jet_transform_exit(trace_stack, FALSE)
  /\ UNCHANGED <<entry, primals, series, prior, env, last, err, log>>

Next ==
  \/ jet /\ UNCHANGED rulevars
  \/ jet_transform /\ UNCHANGED rulevars
  \/ Bind /\ UNCHANGED rulevars
  \/ process_call /\ UNCHANGED rulevars
  \/ Return /\ UNCHANGED rulevars

Spec == Init /\ [][Next]_vars

\* ------------------------------------------------- the rules on their own
Mat(r1, r2) == Array(<<2, Len(r1)>>, "f32", List([f \in 1..(2 * Len(r1)) |-> Num((r1 \o r2)[f])]))

Lists(coefs) == UNION {[1..K -> coefs] : K \in 0..MaxRuleK}

NoParams == [axes |-> {}]

Call(prim, primals_in, series_in, params) ==
  [prim |-> prim, primals_in |-> primals_in, series_in |-> series_in, params |-> params]

VecPrimals == {Vec(<<1, 2>>), Vec(<<3, -1>>)}

VecCoefs == {Vec(<<1, 0>>), Vec(<<2, 5>>)}

LinearCalls ==
  {Call(prim, <<x>>, <<s>>, params) :
     prim \in {"neg"}, params \in {NoParams}, x \in VecPrimals, s \in Lists(VecCoefs)}
  \cup {Call(prim, <<x>>, <<s>>, params) :
     prim \in {"reduce_sum"}, params \in {[axes |-> {0}]}, x \in VecPrimals, s \in Lists(VecCoefs)}
  \cup {Call(prim, <<xs[1], xs[2]>>, <<ss[1], ss[2]>>, NoParams) :
     prim \in {"add", "sub"}, xs \in VecPrimals \X VecPrimals,
     ss \in {p \in Lists(VecCoefs) \X Lists(VecCoefs) : Len(p[1]) = Len(p[2])}}

ScalarPrimals == {Scalar(2), Scalar(3)}

ScalarCoefs == {Scalar(0), Scalar(1), Scalar(2)}

BilinearCalls ==
  {Call("mul", <<xs[1], xs[2]>>, <<ss[1], ss[2]>>, NoParams) :
     xs \in ScalarPrimals \X ScalarPrimals,
     ss \in {p \in Lists(ScalarCoefs) \X Lists(ScalarCoefs) : Len(p[1]) = Len(p[2])}}
  \cup {Call("dot_general", <<Vec(<<1, 2>>), Vec(<<3, -1>>)>>, <<ss[1], ss[2]>>, NoParams) :
     ss \in {p \in Lists(VecCoefs) \X Lists(VecCoefs) : Len(p[1]) = Len(p[2])}}

ExpCalls ==
  {Call("exp", <<Scalar(x)>>, <<s>>, NoParams) : x \in -1..2, s \in Lists({Scalar(c) : c \in -1..2})}

MaxVecs == {Array(<<3>>, "f32", List([f \in 1..3 |-> Num(v[f])])) : v \in [1..3 -> {1, 3}]}

MaxVecCoefs == {Array(<<3>>, "f32", <<Num(1), Num(0), Num(0)>>), Array(<<3>>, "f32", <<Num(0), Num(1), Num(2)>>)}

MaxMats == {Mat(<<v[1], v[2]>>, <<v[3], v[4]>>) : v \in [1..4 -> {1, 3}]}

MaxMatCoefs == {Mat(<<1, 0>>, <<0, 2>>), Mat(<<0, 1>>, <<1, 1>>)}

ReduceMaxCalls ==
  {Call("reduce_max", <<x>>, <<s>>, [axes |-> ax]) :
     x \in MaxVecs, s \in Lists(MaxVecCoefs), ax \in {{0}, {}}}
  \cup {Call("reduce_max", <<x>>, <<s>>, [axes |-> ax]) :
     x \in MaxMats, s \in Lists(MaxMatCoefs), ax \in {{0}, {1}, {0, 1}}}

RuleCalls == LinearCalls \cup BilinearCalls \cup ExpCalls \cup ReduceMaxCalls

IdleCall ==
  /\ pc = "idle" /\ entry = "none" /\ primals = <<>> /\ series = <<>> /\ prior = <<>>
  /\ trace_stack = <<>> /\ env = <<>> /\ last = NoLast /\ err = ""
  /\ log = [fun |-> 0, pushed |-> 0, rules |-> 0, binds |-> 0] /\ out = <<>>

InitRules ==
  /\ IdleCall
  /\ rpc = "start"
  /\ rcall \in RuleCalls
  /\ rout = RuleErr("none")
  /\ rout2 = RuleErr("none")

\* the registered rule is called on the arguments
ApplyRule ==
  /\ rpc = "start"
  /\ rout' = CallRule(rcall.prim, rcall.primals_in, rcall.series_in, rcall.params)
  /\ rpc' = "applied"
  /\ UNCHANGED <<rcall, rout2>>

\* log of exp: the log rule is called on what the exp rule returned
ChainLog ==
  /\ rpc = "applied"
  /\ rcall.prim = "exp"
  /\ rout.status = "ok"
  /\ rout2' = CallRule("log", <<rout.primal_out>>, <<rout.series_out>>, NoParams)
  /\ rpc' = "chained"
  /\ UNCHANGED <<rcall, rout>>

NextRules ==
  \/ ApplyRule /\ UNCHANGED callvars
  \/ ChainLog /\ UNCHANGED callvars

SpecRules == InitRules /\ [][NextRules]_vars

\* ------------------------------------------------------ properties: jet
LengthsDiffer == \E a, b \in 1..Len(series) : Len(series[a]) # Len(series[b])

InputShapeError == "ValueError: jet terms have inconsistent lengths for different arguments"

\* C1: a call of jet in which two arguments' coefficient lists differ in length
\* fails with the input-shape ValueError and computes nothing: fun is not
\* invoked, no interception layer is pushed, no primitive is bound, no rule runs
C1_InconsistentLengthsRejected ==
  (entry = "jet" /\ LengthsDiffer /\ pc # "entry") =>
    /\ pc = "failed"
    /\ err = InputShapeError
    /\ log = [fun |-> 0, pushed |-> 0, rules |-> 0, binds |-> 0]
    /\ trace_stack = prior
    /\ env = <<>>
    /\ out = <<>>

C1_Witness ==
  /\ entry = "jet" /\ LengthsDiffer
  /\ pc = "failed" /\ err = InputShapeError
  /\ log.fun = 0 /\ log.pushed = 0

\* C7: while the user function runs, the call's layer is on top of the stack it
\* found; once the call has ended, by a return or by any failure, the stack is
\* again exactly the one it found; no primitive is bound before the layer is pushed
C7_LayerRestored ==
  /\ pc = "running" => trace_stack = Append(prior, "JetTrace")
  /\ pc \in {"entry", "done", "failed"} => trace_stack = prior
  /\ log.binds > 0 => log.pushed = 1

C7_Witness ==
  /\ pc = "failed" /\ log.pushed = 1 /\ err \in {"ValueError", "KeyError", "AssertionError", "IndexError"}
  /\ trace_stack = prior /\ prior # <<>>

\* ------------------------------------------- properties: process_primitive
Disagree(ts) ==
  \E a, b \in 1..Len(ts) :
    /\ ts[a].terms # zero_series /\ ts[b].terms # zero_series
    /\ Len(ts[a].terms) # Len(ts[b].terms)

NoneConcrete(ts) == \A a \in 1..Len(ts) : ts[a].terms = zero_series

CommonOrder(ts) == Len(ts[CHOOSE a \in 1..Len(ts) : ts[a].terms # zero_series].terms)

IsZeroArrayLike(z, x) ==
  /\ z.shape = x.shape /\ z.dtype = x.dtype /\ Len(z.data) = Len(x.data)
  /\ \A f \in 1..Len(z.data) : z.data[f] = Num(0)

\* C8: in a call through jet with input lists of length K, every jet value with
\* a materialized series (the arguments, every intercepted primitive's
\* materialized operands and result, the returned value) has exactly K coefficients
C8_OneOrder ==
  (entry = "jet" /\ log.pushed = 1) =>
    /\ \A i \in 1..Len(env) :
         (env[i].tracer /\ env[i].terms # zero_series) => Len(env[i].terms) = Len(series[1])
    /\ last.intercepted =>
         /\ last.res.status # "ValueError"
         /\ \A a \in 1..Len(last.res.series_in) : Len(last.res.series_in[a]) = Len(series[1])
    /\ (pc = "done" /\ out[2] # zero_series) => Len(out[2]) = Len(series[1])

C8_Witness ==
  /\ entry = "jet" /\ Len(series[1]) = MaxK /\ pc = "done"
  /\ last.intercepted /\ last.res.rule_called /\ last.prim = "div"
  /\ \E a \in 1..Len(last.tracers) : last.tracers[a].terms = zero_series
  /\ out[2] # zero_series /\ Len(out[2]) = MaxK

\* C9: an intercepted primitive fails with the order error, before the rule
\* lookup, with no rule called and no jet value produced, exactly when two
\* operands carry concrete series of different lengths or every operand carries
\* the zero-series sentinel; otherwise every operand's series reaches the
\* lookup with K entries, a sentinel operand's K entries being zero arrays of
\* its primal's shape and element type
C9_OrderCheck ==
  last.intercepted =>
    /\ last.res.status = "ValueError" <=> (Disagree(last.tracers) \/ NoneConcrete(last.tracers))
    /\ last.res.status = "ValueError" =>
         /\ ~last.res.looked_up /\ ~last.res.rule_called
         /\ last.res.out = Plain(NoArray)
         /\ pc = "failed" /\ err = "ValueError"
    /\ last.res.status # "ValueError" =>
         /\ last.res.looked_up
         /\ Len(last.res.series_in) = Len(last.tracers)
         /\ \A a \in 1..Len(last.tracers) :
              /\ Len(last.res.series_in[a]) = CommonOrder(last.tracers)
              /\ last.tracers[a].terms = zero_series =>
                   \A k \in 1..CommonOrder(last.tracers) :
                     IsZeroArrayLike(last.res.series_in[a][k], last.tracers[a].primal)

C9_Witness ==
  /\ last.intercepted /\ last.res.status = "ValueError"
  /\ Disagree(last.tracers)
  /\ ~last.res.looked_up /\ pc = "failed"

\* C9, the other branch: a sentinel operand next to a concrete one was expanded
C9_ExpandedReached ==
  /\ last.intercepted /\ last.res.status = "ok"
  /\ \E a \in 1..Len(last.tracers) : last.tracers[a].terms = zero_series
  /\ CommonOrder(last.tracers) = MaxK

Unregistered(prim) == prim \notin DOMAIN jet_rules

\* C10 as stated: an intercepted primitive with no registered rule fails, for
\* any operands, with the lookup error naming the primitive, no rule being
\* invoked and no result produced
C10_AlwaysLookupError ==
  (last.intercepted /\ Unregistered(last.prim)) =>
    /\ last.res.status = "KeyError" /\ last.res.key = last.prim
    /\ ~last.res.rule_called
    /\ last.res.out = Plain(NoArray)
    /\ pc = "failed"

\* C10 amended: an intercepted primitive with no registered rule fails at the
\* interception with no rule invoked and no result produced; the failure is the
\* lookup error naming the primitive when the operands pass the order check,
\* and the order error, raised before the lookup, when they do not
C10_LookupErrorAfterOrderCheck ==
  (last.intercepted /\ Unregistered(last.prim)) =>
    /\ ~last.res.rule_called
    /\ last.res.out = Plain(NoArray)
    /\ pc = "failed" /\ err = last.res.status
    /\ IF Disagree(last.tracers) \/ NoneConcrete(last.tracers)
       THEN last.res.status = "ValueError" /\ ~last.res.looked_up
       ELSE last.res.status = "KeyError" /\ last.res.key = last.prim /\ last.res.looked_up

C10_Witness ==
  /\ last.intercepted /\ Unregistered(last.prim)
  /\ last.res.status = "KeyError" /\ last.res.key = last.prim
  /\ pc = "failed" /\ err = "KeyError"

ZeroLike(t) == t.terms = zero_series \/ \A k \in 1..Len(t.terms) : t.terms[k] = zero_term

\* C6: a registered linear primitive intercepted on jet values whose series are
\* the zero-series sentinel or hold only zero-term sentinels raises nothing and
\* yields the primal the primitive gives on the bare primal values
C6_ZeroJetsLikeBarePrimals ==
  (/\ last.intercepted
   /\ last.prim \in LinearPrims
   /\ \A a \in 1..Len(last.tracers) : ZeroLike(last.tracers[a])) =>
    /\ last.res.status = "ok"
    /\ last.res.out.primal = impl(last.prim, Primals(last.tracers), last.params)

\* C6 for the jet values a call through jet can hold
C6_ThroughJet == entry = "jet" => C6_ZeroJetsLikeBarePrimals

\* ---------------------------------------------------- properties: the rules
\* C2: for a primitive registered with deflinear and operands whose lists all
\* have length K, linear_prop returns the primitive of the primals and exactly K
\* coefficients, the k-th being the primitive of the operands' k-th coefficients
C2_LinearTermwise ==
  (rpc = "applied" /\ rcall.prim \in LinearPrims) =>
    /\ rout.status = "ok"
    /\ rout.primal_out = impl(rcall.prim, rcall.primals_in, rcall.params)
    /\ Len(rout.series_out) = Len(rcall.series_in[1])
    /\ \A k \in 1..Len(rcall.series_in[1]) :
         rout.series_out[k] =
           impl(rcall.prim, List([a \in 1..Len(rcall.series_in) |-> rcall.series_in[a][k]]), rcall.params)

C2_Witness ==
  /\ rpc = "applied" /\ rcall.prim = "sub"
  /\ Len(rcall.series_in[1]) = MaxRuleK
  /\ rcall.series_in[1][1] # rcall.series_in[1][2]
  /\ rcall.series_in[1] # rcall.series_in[2]
  /\ Len(rout.series_out) = MaxRuleK

Jet(x, s) == <<x>> \o s

LeibnizSum(prim, u, w, k, params) ==
  SumOf(List([j1 \in 1..(k + 1) |->
                Scale(Q(fact(k), fact(k - (j1 - 1)) * fact(j1 - 1), 0),
                      impl(prim, <<u[j1], w[(k - (j1 - 1)) + 1]>>, params))]))

SquareOfTwo == Call("mul", <<Scalar(2), Scalar(2)>>, <<<<Scalar(1), Scalar(0)>>, <<Scalar(1), Scalar(0)>>>>, NoParams)

\* C3: for a bilinear primitive op and operand jets u, w of order K the rule
\* returns, for every k in 0..K, v_k = sum over j in 0..k of
\* fact(k) / (fact(k-j) * fact(j)) * op(u_j, w_(k-j)); mul of primal 2 with series
\* [1, 0] by itself has primal 4 and first coefficient 4
C3_BilinearLeibniz ==
  (rpc = "applied" /\ rcall.prim \in BilinearPrims) =>
    /\ rout.status = "ok"
    /\ Len(rout.series_out) = Len(rcall.series_in[1])
    /\ \A k \in 0..Len(rcall.series_in[1]) :
         Jet(rout.primal_out, rout.series_out)[k + 1] =
           LeibnizSum(rcall.prim, Jet(rcall.primals_in[1], rcall.series_in[1]),
                      Jet(rcall.primals_in[2], rcall.series_in[2]), k, rcall.params)
    /\ rcall = SquareOfTwo => rout.primal_out = Scalar(4) /\ rout.series_out[1] = Scalar(4)

C3_Witness ==
  /\ rpc = "applied" /\ rcall = SquareOfTwo
  /\ rout.primal_out = Scalar(4) /\ rout.series_out[1] = Scalar(4)

\* C4: _log_taylor applied to the result of _exp_taylor on a jet (x; s_1..s_K)
\* returns the primal x and the coefficients s_1..s_K
C4_ExpLogRoundTrip ==
  rpc = "chained" =>
    /\ rout2.status = "ok"
    /\ rout2.primal_out = rcall.primals_in[1]
    /\ rout2.series_out = rcall.series_in[1]

C4_Witness ==
  /\ rpc = "chained"
  /\ rcall.primals_in = <<Scalar(2)>>
  /\ Len(rcall.series_in[1]) = MaxRuleK
  /\ \A k \in 1..MaxRuleK : rcall.series_in[1][k] \in {Scalar(-1), Scalar(1), Scalar(2)}
  /\ rout.series_out # rcall.series_in[1]
  /\ rout2.series_out = rcall.series_in[1]

ArgMax(x, G) == {f \in G : \A g \in G : x.data[f].n >= x.data[g].n}

\* the maximum of each group, and the coefficients at the positions attaining
\* it summed and divided by their number
MaxAndSharedCredit(x, gs, axes, res) ==
  /\ Len(res.primal_out.data) = Size(KeepAxes(x.shape, axes))
  /\ \A o \in 1..Len(res.primal_out.data) :
       res.primal_out.data[o] \in {x.data[f] : f \in ArgMax(x, Group(x, axes, o))}
  /\ Len(res.series_out) = Len(gs)
  /\ \A k \in 1..Len(gs) : \A o \in 1..Len(res.primal_out.data) :
       res.series_out[k].data[o] =
         NDiv(FoldSet(NAdd, Num(0), gs[k].data, ArgMax(x, Group(x, axes, o))),
              Num(Cardinality(ArgMax(x, Group(x, axes, o)))))

TiedMax == Array(<<3>>, "f32", <<Num(3), Num(3), Num(1)>>)

TiedCoefs == Array(<<3>>, "f32", <<Num(1), Num(0), Num(0)>>)

\* C5: the rule for reduce_max returns the maximum of each reduction group and,
\* at every order, the sum of the coefficients at the positions attaining the
\* maximum divided by the number of such positions; [3, 3, 1] with the one
\* coefficient [1, 0, 0] gives 3 and 1/2
C5_MaxSharesCredit ==
  (rpc = "applied" /\ rcall.prim = "reduce_max") =>
    /\ rout.status = "ok"
    /\ MaxAndSharedCredit(rcall.primals_in[1], rcall.series_in[1], rcall.params.axes, rout)
    /\ (rcall.primals_in = <<TiedMax>> /\ rcall.series_in = <<<<TiedCoefs>>>> /\ rcall.params.axes = {0}) =>
         rout.primal_out.data = <<Num(3)>> /\ rout.series_out[1].data = <<Q(1, 2, 0)>>

\* C5 for the jets that carry at least one coefficient
C5_WithCoefficients ==
  (rpc = "applied" /\ rcall.prim = "reduce_max" /\ Len(rcall.series_in[1]) > 0) => C5_MaxSharesCredit

=============================================================================
